---- MODULE Spec2Model ----
(***************************************************************************)
(* A model of the route-relative correlation code of routethink:           *)
(*   gpx_functions.py      split_route, cut_line_at_distance,              *)
(*                         create_route_buffer, process_settlements        *)
(*   better_search_poi.py  calculate_distance_along_route,                 *)
(*                         process_single_poi, process_pois,               *)
(*                         get_nearest_settlement                          *)
(*                                                                         *)
(* Planar (UTM) geometry is modelled in whole metres.  A route is given    *)
(* either by the lengths of its segments (segmentation, where only arc     *)
(* length matters) or by its vertices on a grid with axis-parallel         *)
(* segments (projection), so that every length and every nearest point is  *)
(* an integer.  Vertices are numbered from 0 as line.coords is.            *)
(***************************************************************************)
EXTENDS Integers, Sequences, FiniteSets, TLC

VARIABLES
    \* split_route
    route,          \* route_utm as the sequence of its segment lengths
    chunk_size,     \* the chunk_size argument
    n_chunks,       \* ceil(total_length / chunk_size)
    i,              \* the loop variable of split_route
    chunks,         \* the list being built: each chunk a sequence of vertex indices
    spans,          \* per chunk, the loop's (i, start, end)
    pcSplit,        \* "start", "loop", "returned", "raised", or "idle"
    \* calculate_distance_along_route
    routeXY,            \* route_utm as the sequence of its vertices <<x, y>>
    point,              \* point_utm
    distFails,          \* whether a step of the try block raises
    nearest_point_dist, \* route_utm.project(point_utm)
    distance,           \* min(nearest_point_dist, total_length)
    distance_km,        \* the value returned, in hundredths of a kilometre
    distRaised,         \* whether the call raised
    pcDist,             \* "start", "done", or "idle"
    \* process_pois
    shops,          \* pois['shops']: the rows of the shop feed, in feed order
    campsites,      \* pois['campsites']: the rows of the campsite feed
    dual,           \* <<j, k>>: shops[j] and campsites[k] are one OSM feature,
                    \* tagged shop and camp site; <<0, 0>>: no such feature
    processed,      \* the list being built, then sorted
    row,            \* the position in the feed being iterated
    pcPois,         \* "shops", "campsites", "sort", "returned", or "idle"
    \* process_settlements
    settlements,    \* the rows of the settlement feed, in feed order
    admin_areas,    \* the rows of the administrative-boundary feed
    processedS,     \* the list `processed` being built
    name,           \* the local `name`, unbound until line 154 first succeeds
    rowS,           \* the position in the settlement feed
    pcSettle,       \* "loop", "returned", "raised", or "idle"
    \* cut_line_at_distance, called on its own
    cutLine,        \* line as the sequence of its segment lengths
    cutStart,       \* the start_dist argument
    cutEnd,         \* the end_dist argument
    cutCoords,      \* the coordinates of the line returned, as vertex indices
    pcCut,          \* "start", "returned", or "idle"
    \* create_route_buffer
    bufRoute,           \* route_utm as the sequence of its vertices <<x, y>>
    buffer_distance,    \* the buffer_distance argument
    bufFails,           \* whether a step of the try block raises
    buffered,           \* the buffer returned: the grid points it covers
    pcBuffer,           \* "start", "returned", "raised", or "idle"
    \* get_nearest_settlement
    nsPoint,        \* the point, in the plane the distances are measured in
    nsSettlements,  \* the rows of the settlement feed, in feed order
    nsFails,        \* "none", or the step of the try block that raises
    nearest,        \* what the call returned, or that it raised
    pcNearest,      \* "start", "done", or "idle"
    \* the projections of one correlation run
    geoRoute,       \* the route's vertices, as longitudes in whole degrees
    geoPoints,      \* the candidates' points, as longitudes in whole degrees
    crsUsed,        \* per candidate processed, the projection of each distance
    rowG,           \* the position in the candidate list
    pcCrs           \* "loop", "returned", or "idle"

splitVars == <<route, chunk_size, n_chunks, i, chunks, spans, pcSplit>>

distVars == <<routeXY, point, distFails, nearest_point_dist, distance,
              distance_km, distRaised, pcDist>>

poisVars == <<shops, campsites, dual, processed, row, pcPois>>

settleVars == <<settlements, admin_areas, processedS, name, rowS, pcSettle>>

cutVars == <<cutLine, cutStart, cutEnd, cutCoords, pcCut>>

bufferVars == <<bufRoute, buffer_distance, bufFails, buffered, pcBuffer>>

nearestVars == <<nsPoint, nsSettlements, nsFails, nearest, pcNearest>>

crsVars == <<geoRoute, geoPoints, crsUsed, rowG, pcCrs>>

vars == <<splitVars, distVars, poisVars, settleVars, cutVars, bufferVars,
          nearestVars, crsVars>>

notSplitVars == <<distVars, poisVars, settleVars, cutVars, bufferVars,
                  nearestVars, crsVars>>
notDistVars == <<splitVars, poisVars, settleVars, cutVars, bufferVars,
                 nearestVars, crsVars>>
notPoisVars == <<splitVars, distVars, settleVars, cutVars, bufferVars,
                 nearestVars, crsVars>>
notSettleVars == <<splitVars, distVars, poisVars, cutVars, bufferVars,
                   nearestVars, crsVars>>
notCutVars == <<splitVars, distVars, poisVars, settleVars, bufferVars,
                nearestVars, crsVars>>
notBufferVars == <<splitVars, distVars, poisVars, settleVars, cutVars,
                   nearestVars, crsVars>>
notNearestVars == <<splitVars, distVars, poisVars, settleVars, cutVars,
                    bufferVars, crsVars>>
notCrsVars == <<splitVars, distVars, poisVars, settleVars, cutVars, bufferVars,
                nearestVars>>

\* the variables of a function that is not running
SplitIdle ==
    /\ route = <<>>
    /\ chunk_size = 0
    /\ n_chunks = 0
    /\ i = 0
    /\ chunks = <<>>
    /\ spans = <<>>
    /\ pcSplit = "idle"

DistIdle ==
    /\ routeXY = <<>>
    /\ point = <<0, 0>>
    /\ distFails = FALSE
    /\ nearest_point_dist = 0
    /\ distance = 0
    /\ distance_km = 0
    /\ distRaised = FALSE
    /\ pcDist = "idle"

PoisIdle ==
    /\ shops = <<>>
    /\ campsites = <<>>
    /\ dual = <<0, 0>>
    /\ processed = <<>>
    /\ row = 0
    /\ pcPois = "idle"

Unbound == "<unbound>"

SettleIdle ==
    /\ settlements = <<>>
    /\ admin_areas = <<>>
    /\ processedS = <<>>
    /\ name = Unbound
    /\ rowS = 0
    /\ pcSettle = "idle"

CutIdle ==
    /\ cutLine = <<>>
    /\ cutStart = 0
    /\ cutEnd = 0
    /\ cutCoords = <<>>
    /\ pcCut = "idle"

BufferIdle ==
    /\ bufRoute = <<>>
    /\ buffer_distance = 0
    /\ bufFails = FALSE
    /\ buffered = {}
    /\ pcBuffer = "idle"

NearestIdle ==
    /\ nsPoint = <<0, 0>>
    /\ nsSettlements = <<>>
    /\ nsFails = "none"
    /\ nearest = [raised |-> FALSE]
    /\ pcNearest = "idle"

CrsIdle ==
    /\ geoRoute = <<>>
    /\ geoPoints = <<>>
    /\ crsUsed = <<>>
    /\ rowG = 0
    /\ pcCrs = "idle"

(***************************************************************************)
(* Helpers                                                                 *)
(***************************************************************************)
Max2(a, b) == IF a >= b THEN a ELSE b
Min2(a, b) == IF a <= b THEN a ELSE b

RECURSIVE SumTo(_, _)
SumTo(s, k) == IF k = 0 THEN 0 ELSE s[k] + SumTo(s, k - 1)

\* LineString.length of a line given by its segment lengths
LineLength(segs) == SumTo(segs, Len(segs))

\* All sequences over S of length lo..hi
SeqsOf(S, lo, hi) == UNION {[1..n -> S] : n \in lo..hi}

(***************************************************************************)
(* Bounds and input sets of the segmentation model                         *)
(***************************************************************************)
MaxSegs == 4
SegLens == {0, 500, 1000, 1500, 3000, 4500}
ChunkSizes == {-1000, 0, 500, 1000, 2500}

(***************************************************************************)
(* gpx_functions.py: cut_line_at_distance                                  *)
(***************************************************************************)
\* the for loop of cut_line_at_distance, from segment k (1-based; its start
\* vertex is line.coords[k-1])
RECURSIVE cut_walk(_, _, _, _, _, _)
cut_walk(line, k, current_dist, start_dist, end_dist, coords) ==
    IF k > Len(line) THEN coords
    ELSE LET segment_length == line[k] IN
         IF current_dist + segment_length < start_dist
         THEN cut_walk(line, k + 1, current_dist + segment_length,
                       start_dist, end_dist, coords)
         ELSE IF current_dist > end_dist
         THEN coords
         ELSE cut_walk(line, k + 1, current_dist + segment_length,
                       start_dist, end_dist, Append(coords, k - 1))

\* a walk that keeps a segment only when it ends inside [start, end]
RECURSIVE cut_walk_contained(_, _, _, _, _, _)
cut_walk_contained(line, k, current_dist, start_dist, end_dist, coords) ==
    IF k > Len(line) THEN coords
    ELSE LET segment_length == line[k] IN
         IF current_dist + segment_length < start_dist
         THEN cut_walk_contained(line, k + 1, current_dist + segment_length,
                                 start_dist, end_dist, coords)
         ELSE IF current_dist + segment_length > end_dist
         THEN coords
         ELSE cut_walk_contained(line, k + 1, current_dist + segment_length,
                                 start_dist, end_dist, Append(coords, k - 1))

cut_line_contained(line, start_dist, end_dist) ==
    LET s == IF start_dist < 0 THEN 0 ELSE start_dist
        e == IF end_dist > LineLength(line) THEN LineLength(line) ELSE end_dist
        coords == cut_walk_contained(line, 1, 0, s, e, <<>>)
    IN  IF coords # <<>> THEN Append(coords, Len(line)) ELSE coords

\* a cut that ends at the last vertex the walk kept: lines 102-103 left out
cut_line_without_final(line, start_dist, end_dist) ==
    LET s == IF start_dist < 0 THEN 0 ELSE start_dist
        e == IF end_dist > LineLength(line) THEN LineLength(line) ELSE end_dist
    IN  cut_walk(line, 1, 0, s, e, <<>>)

cut_line_at_distance(line, start_dist, end_dist) ==
    LET s == IF start_dist < 0 THEN 0 ELSE start_dist
        e == IF end_dist > LineLength(line) THEN LineLength(line) ELSE end_dist
        coords == cut_walk(line, 1, 0, s, e, <<>>)
    IN  IF coords # <<>> THEN Append(coords, Len(line)) ELSE coords

(***************************************************************************)
(* gpx_functions.py: split_route                                           *)
(***************************************************************************)
overlap == 1000

\* math.ceil(a / b) for b # 0
ceil(a, b) ==
    IF b > 0 THEN IF a >= 0 THEN (a + b - 1) \div b ELSE -((-a) \div b)
    ELSE IF a >= 0 THEN -(a \div (-b)) ELSE ((-a) + (-b) - 1) \div (-b)

n_chunks_floor(total_length, size) == total_length \div size

n_chunks_of(total_length, size) == ceil(total_length, size)

chunk_start_bare(idx, size) == Max2(0, idx * size)

chunk_start(idx, size) == Max2(0, idx * size - overlap)

chunk_end(idx, size, total_length) ==
    Min2(total_length, (idx + 1) * size + overlap)

SplitInit ==
    /\ route \in SeqsOf(SegLens, 1, MaxSegs)
    /\ chunk_size \in ChunkSizes
    /\ n_chunks = 0
    /\ i = 0
    /\ chunks = <<>>
    /\ spans = <<>>
    /\ pcSplit = "start"
    /\ DistIdle
    /\ PoisIdle
    /\ SettleIdle
    /\ CutIdle
    /\ BufferIdle
    /\ NearestIdle
    /\ CrsIdle

\* lines 51-60: the division raises for chunk_size = 0 and the handler re-raises
SplitBegin ==
    /\ pcSplit = "start"
    /\ IF chunk_size = 0
       THEN /\ pcSplit' = "raised"
            /\ UNCHANGED n_chunks
       ELSE /\ pcSplit' = "loop"
            /\ n_chunks' = n_chunks_of(LineLength(route), chunk_size)
    /\ UNCHANGED <<route, chunk_size, i, chunks, spans, notSplitVars>>

\* lines 61-68: one iteration of the loop
SplitChunk ==
    /\ pcSplit = "loop"
    /\ i < n_chunks
    /\ LET start == chunk_start(i, chunk_size)
           end == chunk_end(i, chunk_size, LineLength(route))
           chunk == cut_line_at_distance(route, start, end)
       IN  /\ chunks' = Append(chunks, chunk)
           /\ spans' = Append(spans, [i |-> i, start |-> start, end |-> end])
    /\ i' = i + 1
    /\ UNCHANGED <<route, chunk_size, n_chunks, pcSplit, notSplitVars>>

\* line 70
SplitReturn ==
    /\ pcSplit = "loop"
    /\ i >= n_chunks
    /\ pcSplit' = "returned"
    /\ UNCHANGED <<route, chunk_size, n_chunks, i, chunks, spans, notSplitVars>>

SplitNext == SplitBegin \/ SplitChunk \/ SplitReturn

SpecSplit == SplitInit /\ [][SplitNext]_vars

\* the contract's precondition: a route of positive length, a positive chunk size
SplitReturnedWell ==
    /\ pcSplit = "returned"
    /\ chunk_size > 0
    /\ LineLength(route) > 0

\* arc length of vertex v (0-based) of the route
ArcAt(v) == SumTo(route, v)

\* chunk c holds vertices v, v+1 as consecutive coordinates
HasSegment(c, v) ==
    \E k \in 1..(Len(chunks[c]) - 1) :
        chunks[c][k] = v /\ chunks[c][k + 1] = v + 1

\* C1: when split_route returns for a route of positive length and a positive
\* chunk size, every segment between two consecutive route vertices appears as
\* two consecutive coordinates of at least one returned chunk, whatever the
\* segment lengths are.
C1_ChunksCoverRoute ==
    SplitReturnedWell =>
        \A v \in 0..(Len(route) - 1) : \E c \in 1..Len(chunks) : HasSegment(c, v)

\* a returned split of several chunks over a route with a segment longer than
\* chunk_size + 2 * overlap, every segment covered
C1_Witness ==
    /\ SplitReturnedWell
    /\ Len(chunks) >= 3
    /\ Len(route) >= 3
    /\ \E k \in 1..Len(route) : route[k] > chunk_size + 2 * overlap
    /\ \A v \in 0..(Len(route) - 1) : \E c \in 1..Len(chunks) : HasSegment(c, v)

\* no route vertex between the first and last coordinate of the chunk is skipped
Contiguous(ch) == \A k \in 1..(Len(ch) - 1) : ch[k + 1] = ch[k] + 1

\* the chunk's first and last segment both intersect [start, end]
WithinSpan(ch, sp) ==
    Len(ch) >= 2 =>
        /\ ArcAt(ch[1] + 1) >= sp.start
        /\ ArcAt(ch[Len(ch)] - 1) <= sp.end

\* C2: every chunk i returned by split_route is a contiguous sub-sequence of
\* the route's vertices and extends no further than the vertices bounding the
\* first and last segment that intersect
\* [max(0, i*L - overlap), min(length, (i+1)*L + overlap)].
C2_ChunkIsContiguousSlice ==
    SplitReturnedWell =>
        \A c \in 1..Len(chunks) :
            Contiguous(chunks[c]) /\ WithinSpan(chunks[c], spans[c])

\* C3: for a route of positive length and a positive chunk size split_route
\* returns exactly ceil(length / L) chunks, n being the one integer with
\* (n-1)*L < length <= n*L, built in order of increasing chunk index.
C3_ChunkCount ==
    SplitReturnedWell =>
        /\ (Len(chunks) - 1) * chunk_size < LineLength(route)
        /\ LineLength(route) <= Len(chunks) * chunk_size
        /\ Len(spans) = Len(chunks)
        /\ \A c \in 1..Len(spans) : spans[c].i = c - 1

\* a split that returned several chunks for a length that is no multiple of L
C3_Witness ==
    /\ SplitReturnedWell
    /\ Len(chunks) >= 3
    /\ LineLength(route) % chunk_size # 0

\* C4 as stated: the arc-length intervals of adjacent chunks overlap by exactly
\* overlap metres, end_i - start_(i+1) = overlap.
C4_OverlapIsExactlyMargin ==
    SplitReturnedWell =>
        \A c \in 1..(Len(spans) - 1) : spans[c].end - spans[c + 1].start = overlap

\* the seam between chunk c and c+1 (1-based) is clamped by neither end of the route
Unclamped(c) ==
    /\ c * chunk_size - overlap >= 0
    /\ c * chunk_size + overlap <= LineLength(route)

\* What lines 62-63 give instead: the arc-length intervals of adjacent chunks
\* overlap by exactly 2 * overlap metres where neither bound is clamped to 0 or
\* to the length, and by a positive amount of at most 2 * overlap metres in
\* every case.
OverlapIsTwiceMargin ==
    SplitReturnedWell =>
        \A c \in 1..(Len(spans) - 1) :
            LET d == spans[c].end - spans[c + 1].start IN
            /\ Unclamped(c) => d = 2 * overlap
            /\ d > 0
            /\ d <= 2 * overlap

\* a returned split with an unclamped seam and a clamped one
TwiceMarginReached ==
    /\ SplitReturnedWell
    /\ \E c \in 1..(Len(spans) - 1) :
          Unclamped(c) /\ spans[c].end - spans[c + 1].start = 2 * overlap
    /\ \E c \in 1..(Len(spans) - 1) :
          ~Unclamped(c) /\ spans[c].end - spans[c + 1].start < 2 * overlap

(***************************************************************************)
(* Planar geometry on the grid: points are <<x, y>> in metres, segments    *)
(* are parallel to an axis (or of length 0)                                *)
(***************************************************************************)
MaxVerts == 4
Coords == {0, 125, 250}
PointCoords == {-125, 0, 15, 125, 130, 250, 375}

Abs(a) == IF a < 0 THEN -a ELSE a

Dist2(a, b) == (a[1] - b[1]) * (a[1] - b[1]) + (a[2] - b[2]) * (a[2] - b[2])

\* LineSegment.getLength of an axis-parallel segment
SegLen(p, q) == Abs(q[1] - p[1]) + Abs(q[2] - p[2])

AxisParallel(p, q) == p[1] = q[1] \/ p[2] = q[2]

\* the routes of n vertices
AxisRoutes(n) ==
    {r \in [1..n -> Coords \X Coords] :
        \A k \in 1..(n - 1) : AxisParallel(r[k], r[k + 1])}

RECURSIVE XYLengthTo(_, _)
XYLengthTo(line, k) ==
    IF k <= 1 THEN 0 ELSE XYLengthTo(line, k - 1) + SegLen(line[k - 1], line[k])

\* LineString.length of a line given by its vertices
XYLength(line) == XYLengthTo(line, Len(line))

(***************************************************************************)
(* LineString.project(point), as GEOS computes it                          *)
(* (LengthIndexOfPoint::indexOfFromStart): the segments are visited in     *)
(* order and a segment replaces the best so far only when it is strictly   *)
(* nearer, so of several nearest locations the first along the line wins.  *)
(***************************************************************************)
\* (pt - p) . (q - p), the numerator of LineSegment::projectionFactor
ProjNum(p, q, pt) ==
    (pt[1] - p[1]) * (q[1] - p[1]) + (pt[2] - p[2]) * (q[2] - p[2])

\* the location of segment p-q closest to pt
ClosestOnSeg(p, q, pt) ==
    LET num == ProjNum(p, q, pt)
        len2 == Dist2(p, q)
    IN  IF num <= 0 THEN p
        ELSE IF num >= len2 THEN q
        ELSE <<p[1] + ((q[1] - p[1]) * num) \div len2,
               p[2] + ((q[2] - p[2]) * num) \div len2>>

\* LineSegment::distance(pt), squared
SegDist2(p, q, pt) == Dist2(ClosestOnSeg(p, q, pt), pt)

\* a projection onto the segment's whole line, the factor left unclamped
segmentNearestMeasure_unclamped(p, q, pt, segmentStartMeasure) ==
    LET num == ProjNum(p, q, pt)
        len == SegLen(p, q)
    IN  IF len = 0 THEN segmentStartMeasure
        ELSE segmentStartMeasure + num \div len

\* LengthIndexOfPoint::segmentNearestMeasure
segmentNearestMeasure(p, q, pt, segmentStartMeasure) ==
    LET num == ProjNum(p, q, pt)
        len2 == Dist2(p, q)
        len == SegLen(p, q)
    IN  IF num <= 0 THEN segmentStartMeasure
        ELSE IF num <= len2 THEN segmentStartMeasure + num \div len
        ELSE segmentStartMeasure + len

\* the loop over the segments; minDistance = -1 stands for infinity
RECURSIVE project_from(_, _, _, _, _, _)
project_from(line, k, pt, segmentStartMeasure, minDistance, ptMeasure) ==
    IF k >= Len(line) THEN ptMeasure
    ELSE LET p == line[k]
             q == line[k + 1]
             segDistance == SegDist2(p, q, pt)
             segMeasureToPt == segmentNearestMeasure(p, q, pt, segmentStartMeasure)
             next == segmentStartMeasure + SegLen(p, q)
         IN  IF minDistance = -1 \/ segDistance < minDistance
             THEN project_from(line, k + 1, pt, next, segDistance, segMeasureToPt)
             ELSE project_from(line, k + 1, pt, next, minDistance, ptMeasure)

\* the same loop with <= for <: the last of several nearest locations wins
RECURSIVE project_last_from(_, _, _, _, _, _)
project_last_from(line, k, pt, segmentStartMeasure, minDistance, ptMeasure) ==
    IF k >= Len(line) THEN ptMeasure
    ELSE LET p == line[k]
             q == line[k + 1]
             segDistance == SegDist2(p, q, pt)
             segMeasureToPt == segmentNearestMeasure(p, q, pt, segmentStartMeasure)
             next == segmentStartMeasure + SegLen(p, q)
         IN  IF minDistance = -1 \/ segDistance <= minDistance
             THEN project_last_from(line, k + 1, pt, next, segDistance, segMeasureToPt)
             ELSE project_last_from(line, k + 1, pt, next, minDistance, ptMeasure)

project_last(line, pt) == project_last_from(line, 1, pt, 0, -1, 0)

project(line, pt) == project_from(line, 1, pt, 0, -1, 0)

(***************************************************************************)
(* better_search_poi.py: calculate_distance_along_route                    *)
(***************************************************************************)
\* The whole metres d with d % 10 = 5 whose double d / 1000 lies below the
\* decimal midpoint, so that round(d / 1000, 2) goes down (IEEE 754 binary64;
\* the table reaches 1600 m, beyond every length of the model).  The odd
\* multiples of 125 m are not in it: their d / 1000 is the midpoint exactly.
BelowTieMetres ==
    {15, 45, 75, 105, 145, 155, 175, 185, 205, 215, 235, 245, 285, 295, 305,
     345, 355, 365, 415, 425, 435, 475, 485, 495, 565, 575, 585, 595, 605,
     615, 695, 705, 715, 725, 735, 745, 815, 825, 835, 845, 855, 865, 945,
     955, 965, 975, 985, 995, 1005, 1015, 1025, 1035, 1045, 1055, 1065, 1075,
     1085, 1095, 1105, 1115, 1255, 1265, 1275, 1285, 1295, 1305, 1315, 1325,
     1335, 1345, 1355, 1365, 1505, 1515, 1525, 1535, 1545, 1555, 1565, 1575,
     1585, 1595}

\* rounding that sends every decimal midpoint up
round_half_up(d) == (d + 5) \div 10

\* round(d / 1000, 2) for d >= 0 whole metres, in hundredths of a kilometre:
\* Python rounds the double correctly, an exact midpoint to the even neighbour
round_km(d) ==
    LET lo == d \div 10 IN
    IF d % 10 # 5 THEN (d + 5) \div 10
    ELSE IF d % 250 = 125 THEN (IF lo % 2 = 0 THEN lo ELSE lo + 1)
    ELSE IF d \in BelowTieMetres THEN lo
    ELSE lo + 1

\* lines 150-176, the try block: what it computes, or that it raised
distance_try(pt, line, fails) ==
    IF fails
    THEN [raised |-> TRUE, nearest_point_dist |-> 0, distance |-> 0,
          distance_km |-> 0]
    ELSE LET npd == project(line, pt)
             total_length == XYLength(line)
             dist == Min2(npd, total_length)
         IN  [raised |-> FALSE, nearest_point_dist |-> npd, distance |-> dist,
              distance_km |-> round_km(dist)]

\* a handler that logs and re-raises
calculate_distance_reraising(pt, line, fails) == distance_try(pt, line, fails)

\* lines 147-180: the handler of line 178 turns every exception into 0.0
calculate_distance_along_route(pt, line, fails) ==
    LET r == distance_try(pt, line, fails) IN
    IF r.raised
    THEN [raised |-> FALSE, nearest_point_dist |-> 0, distance |-> 0,
          distance_km |-> 0]
    ELSE r

DistInit ==
    /\ routeXY \in UNION {AxisRoutes(n) : n \in 2..MaxVerts}
    /\ point \in PointCoords \X PointCoords
    /\ distFails \in BOOLEAN
    /\ nearest_point_dist = 0
    /\ distance = 0
    /\ distance_km = 0
    /\ distRaised = FALSE
    /\ pcDist = "start"
    /\ SplitIdle
    /\ PoisIdle
    /\ SettleIdle
    /\ CutIdle
    /\ BufferIdle
    /\ NearestIdle
    /\ CrsIdle

DistCall ==
    /\ pcDist = "start"
    /\ LET r == calculate_distance_along_route(point, routeXY, distFails) IN
        /\ nearest_point_dist' = r.nearest_point_dist
        /\ distance' = r.distance
        /\ distance_km' = r.distance_km
        /\ distRaised' = r.raised
    /\ pcDist' = "done"
    /\ UNCHANGED <<routeXY, point, distFails, notDistVars>>

DistNext == DistCall

SpecDist == DistInit /\ [][DistNext]_vars

\* the call returned a distance computed by the try block
DistComputed == pcDist = "done" /\ ~distFails

\* the least squared distance from pt to a segment of the line
MinSegDist2(line, pt) ==
    LET ds == {SegDist2(line[k], line[k + 1], pt) : k \in 1..(Len(line) - 1)}
    IN  CHOOSE d \in ds : \A e \in ds : d <= e

\* pt is nearer to the end vertex than to any other location of the line
\* (the last segment of positive length ends the line and no segment before
\* it comes as near)
BeyondEnd(line, pt) ==
    LET n == Len(line) IN
    /\ Dist2(line[n], pt) = MinSegDist2(line, pt)
    /\ \A k \in 1..(n - 1) :
          SegDist2(line[k], line[k + 1], pt) = MinSegDist2(line, pt)
              => ClosestOnSeg(line[k], line[k + 1], pt) = line[n]
                 /\ XYLengthTo(line, k + 1) = XYLength(line)

\* pt is as near to the start vertex as to any location of the line
BeyondStart(line, pt) == Dist2(line[1], pt) = MinSegDist2(line, pt)

\* C5: the arc length computed before the conversion to km lies in
\* [0, length] for every route and every point, near or far; a point whose
\* nearest location is the start of the route yields 0 and one whose only
\* nearest location is the end of the route yields length.
C5_ArcLengthInRange ==
    DistComputed =>
        /\ 0 <= distance
        /\ distance <= XYLength(routeXY)
        /\ BeyondStart(routeXY, point) => distance = 0
        /\ BeyondEnd(routeXY, point) => distance = XYLength(routeXY)

\* a point off the route and beyond its end, collapsed to the length
C5_Witness ==
    /\ DistComputed
    /\ MinSegDist2(routeXY, point) > 0
    /\ BeyondEnd(routeXY, point)
    /\ ~BeyondStart(routeXY, point)
    /\ Len(routeXY) >= 3
    /\ distance = XYLength(routeXY)
    /\ distance > 0

\* the arc lengths at which the line passes through pt
OnRouteArcs(line, pt) ==
    {XYLengthTo(line, k) + SegLen(line[k], pt) :
        k \in {j \in 1..(Len(line) - 1) : SegDist2(line[j], line[j + 1], pt) = 0}}

SetMin(S) == CHOOSE d \in S : \A e \in S : d <= e

\* C6 as stated: the point located on the route at arc length d projects back
\* to d, for all routes, those that revisit a location included.
C6_OnRoutePointProjectsBack ==
    DistComputed => \A d \in OnRouteArcs(routeXY, point) : distance = d

\* C6 amended: the point located on the route at arc length d projects to the
\* smallest arc length at which the route passes through that location; this
\* is d itself whenever the route passes through the location only once.
C6_OnRoutePointProjectsToFirstPass ==
    DistComputed /\ OnRouteArcs(routeXY, point) # {} =>
        distance = SetMin(OnRouteArcs(routeXY, point))

\* a point the route passes through twice, at arc lengths d1 < d2, with d1 > 0
C6_Witness ==
    /\ DistComputed
    /\ Cardinality(OnRouteArcs(routeXY, point)) >= 2
    /\ distance = SetMin(OnRouteArcs(routeXY, point))
    /\ distance > 0

\* C7 as stated: an arc length whose km value lies exactly halfway between two
\* hundredths (125 m = 0.125 km, and every odd multiple of it, whose km value
\* is that midpoint exactly) is rounded to the upper hundredth.
C7_RoundsHalfUp ==
    DistComputed /\ distance % 250 = 125 => distance_km = distance \div 10 + 1

\* C7 amended: the result is a hundredth of a km nearest to the arc length
\* (at most 5 m away), and an arc length whose km value is a midpoint exactly
\* as a double (an odd multiple of 125 m) is rounded to the even hundredth.
C7_RoundsToNearestTiesToEven ==
    DistComputed =>
        /\ Abs(10 * distance_km - distance) <= 5
        /\ distance % 250 = 125 => distance_km % 2 = 0

\* 125 m rounded down to 0.12 km
C7_Witness ==
    /\ DistComputed
    /\ distance = 125
    /\ distance_km = 12

(***************************************************************************)
(* better_search_poi.py: process_single_poi, process_pois                  *)
(***************************************************************************)
MaxFeed == 2

\* the route of the correlation run
PoiRoute == <<<<0, 0>>, <<250, 0>>>>

PoiPoints == {<<0, 0>>, <<130, 15>>}

\* where the processing of a feed row raises, if anywhere:
\*   "name"      row.get('name') of line 102, before name is bound
\*   "geometry"  the geometry access of lines 105-110 (a row without geometry)
\*   "distance"  a step inside calculate_distance_along_route
FailModes == {"none", "name", "geometry", "distance"}

\* a row that raises before its geometry is read has no point to speak of
FeedRows ==
    {r \in [point : PoiPoints, fail : FailModes] :
        r.fail \in {"name", "geometry"} => r.point = <<0, 0>>}

None == [none |-> TRUE]

\* lines 99-145.  An exception at line 102 reaches the handler of line 143
\* with name unbound: the handler's own f-string raises UnboundLocalError,
\* which leaves the function.  Any later exception is logged and None returned.
process_single_poi(r, poi_type, idx, line) ==
    IF r.fail = "name" THEN [raised |-> TRUE, poi |-> None]
    ELSE IF r.fail = "geometry" THEN [raised |-> FALSE, poi |-> None]
    ELSE LET d == calculate_distance_along_route(r.point, line, r.fail = "distance")
         IN  IF d.raised THEN [raised |-> FALSE, poi |-> None]
             ELSE [raised |-> FALSE,
                   poi |-> [type |-> poi_type, idx |-> idx, coords |-> r.point,
                            distance_km |-> d.distance_km]]

\* lines 76-82 and 86-92: one iteration; an exception is logged and skipped
process_row(list, r, poi_type, idx, line) ==
    LET res == process_single_poi(r, poi_type, idx, line) IN
    IF res.raised THEN list
    ELSE IF res.poi # None THEN Append(list, res.poi)
    ELSE list

\* list.sort(key = distance_km) places an element before the equal ones
insert_before_equal(sorted, r) ==
    LET k == Cardinality({j \in 1..Len(sorted) : sorted[j].distance_km < r.distance_km})
    IN  SubSeq(sorted, 1, k) \o <<r>> \o SubSeq(sorted, k + 1, Len(sorted))

\* one insertion of the sort: after every element whose key is <= the new one
insert_by_distance(sorted, r) ==
    LET k == Cardinality({j \in 1..Len(sorted) : sorted[j].distance_km <= r.distance_km})
    IN  SubSeq(sorted, 1, k) \o <<r>> \o SubSeq(sorted, k + 1, Len(sorted))

\* line 95: list.sort(key = lambda x: x['distance_km']), a stable sort
RECURSIVE sort_by_distance(_)
sort_by_distance(list) ==
    IF list = <<>> THEN <<>>
    ELSE insert_by_distance(sort_by_distance(SubSeq(list, 1, Len(list) - 1)),
                            list[Len(list)])

\* the features the two feeds can share: OSMnx answers each tag query with
\* every feature carrying the tag, so a feature tagged both shop=* and
\* tourism=camp_site is a row of both feeds, with the same data in each
DualFeatures(s, c) ==
    {<<0, 0>>} \cup {jk \in (1..Len(s)) \X (1..Len(c)) : s[jk[1]] = c[jk[2]]}

PoisInit ==
    /\ shops \in SeqsOf(FeedRows, 0, MaxFeed)
    /\ campsites \in SeqsOf(FeedRows, 0, MaxFeed)
    /\ dual \in DualFeatures(shops, campsites)
    /\ processed = <<>>
    /\ row = 1
    /\ pcPois = "shops"
    /\ SplitIdle
    /\ DistIdle
    /\ SettleIdle
    /\ CutIdle
    /\ BufferIdle
    /\ NearestIdle
    /\ CrsIdle

\* lines 75-82
PoisShop ==
    /\ pcPois = "shops"
    /\ row <= Len(shops)
    /\ processed' = process_row(processed, shops[row], "shop", row, PoiRoute)
    /\ row' = row + 1
    /\ UNCHANGED <<shops, campsites, dual, pcPois, notPoisVars>>

PoisShopsDone ==
    /\ pcPois = "shops"
    /\ row > Len(shops)
    /\ pcPois' = "campsites"
    /\ row' = 1
    /\ UNCHANGED <<shops, campsites, dual, processed, notPoisVars>>

\* lines 85-92
PoisCampsite ==
    /\ pcPois = "campsites"
    /\ row <= Len(campsites)
    /\ processed' = process_row(processed, campsites[row], "campsite", row, PoiRoute)
    /\ row' = row + 1
    /\ UNCHANGED <<shops, campsites, dual, pcPois, notPoisVars>>

PoisCampsitesDone ==
    /\ pcPois = "campsites"
    /\ row > Len(campsites)
    /\ pcPois' = "sort"
    /\ UNCHANGED <<shops, campsites, dual, processed, row, notPoisVars>>

\* lines 94-97
PoisSortReturn ==
    /\ pcPois = "sort"
    /\ processed' = sort_by_distance(processed)
    /\ pcPois' = "returned"
    /\ UNCHANGED <<shops, campsites, dual, row, notPoisVars>>

PoisNext ==
    \/ PoisShop
    \/ PoisShopsDone
    \/ PoisCampsite
    \/ PoisCampsitesDone
    \/ PoisSortReturn

SpecPois == PoisInit /\ [][PoisNext]_vars

\* the feed rows that yield a record: every row but those whose processing
\* raised outside calculate_distance_along_route
Emitted(feed) == {j \in 1..Len(feed) : feed[j].fail \in {"none", "distance"}}

\* record a was assembled before record b
AssembledBefore(a, b) ==
    \/ a.type = "shop" /\ b.type = "campsite"
    \/ a.type = b.type /\ a.idx < b.idx

\* C8: the list returned by process_pois holds each assembled record once, in
\* ascending order of distance_km, and records of equal distance_km keep their
\* order of assembly (shops in feed order, then campsites in feed order).
C8_StableSortByDistance ==
    pcPois = "returned" =>
        /\ \A a, b \in 1..Len(processed) :
              a < b =>
                  /\ processed[a].distance_km <= processed[b].distance_km
                  /\ processed[a].distance_km = processed[b].distance_km
                        => AssembledBefore(processed[a], processed[b])
        /\ Len(processed) = Cardinality(Emitted(shops)) + Cardinality(Emitted(campsites))
        /\ \A j \in Emitted(shops) :
              \E a \in 1..Len(processed) :
                  processed[a].type = "shop" /\ processed[a].idx = j
        /\ \A j \in Emitted(campsites) :
              \E a \in 1..Len(processed) :
                  processed[a].type = "campsite" /\ processed[a].idx = j

\* a returned list in which the sort moved a campsite before a shop and kept
\* two shops and a shop and a campsite of equal distance in assembly order
C8_Witness ==
    /\ pcPois = "returned"
    /\ Len(processed) >= 4
    /\ \E a, b \in 1..Len(processed) :
          /\ a < b
          /\ processed[a].type = "campsite" /\ processed[b].type = "shop"
          /\ processed[a].distance_km < processed[b].distance_km
    /\ \E a, b \in 1..Len(processed) :
          /\ a < b
          /\ processed[a].type = "shop" /\ processed[b].type = "shop"
          /\ processed[a].distance_km = processed[b].distance_km
          /\ processed[a].idx < processed[b].idx
    /\ \E a, b \in 1..Len(processed) :
          /\ a < b
          /\ processed[a].type = "shop" /\ processed[b].type = "campsite"
          /\ processed[a].distance_km = processed[b].distance_km

\* C10: calculate_distance_along_route does not raise: a candidate for which a
\* step inside it fails still gets its record from process_single_poi, with
\* distance_km = 0.0, in the list process_pois returns.
C10_DistanceFailureYieldsZeroRecord ==
    pcPois = "returned" =>
        /\ \A j \in 1..Len(shops) :
              shops[j].fail = "distance" =>
                  \E a \in 1..Len(processed) :
                      /\ processed[a].type = "shop" /\ processed[a].idx = j
                      /\ processed[a].distance_km = 0
        /\ \A j \in 1..Len(campsites) :
              campsites[j].fail = "distance" =>
                  \E a \in 1..Len(processed) :
                      /\ processed[a].type = "campsite" /\ processed[a].idx = j
                      /\ processed[a].distance_km = 0

\* a candidate off the start of the route whose distance computation failed,
\* returned with distance 0 beside a candidate that was computed
C10_Witness ==
    /\ pcPois = "returned"
    /\ \E j \in 1..Len(shops) :
          /\ shops[j].fail = "distance"
          /\ shops[j].point = <<130, 15>>
          /\ \E a \in 1..Len(processed) :
                /\ processed[a].type = "shop" /\ processed[a].idx = j
                /\ processed[a].distance_km = 0
    /\ \E a \in 1..Len(processed) : processed[a].distance_km > 0

(***************************************************************************)
(* gpx_functions.py: process_settlements                                   *)
(***************************************************************************)
MaxSettlements == 2
MaxAdmin == 2

\* the 'name' tag of the j-th settlement row
SettlementName(j) == <<"s1", "s2", "s3", "s4">>[j]

\* where the processing of a settlement row raises, if anywhere:
\*   "name"      row.get('name') of line 154
\*   "geometry"  the geometry access of lines 158-163 (a row without geometry)
\* and the row's addr:county tag ("" when it has none)
SettlementRows ==
    {r \in [fail : {"none", "name", "geometry"}, county : {"", "Tagshire"}] :
        r.fail # "none" => r.county = ""}

\* a boundary row: its name, its admin_level, whether its polygon contains the
\* settlements' point
AdminRows == [name : {"X", "Y"}, admin_level : {"2", "4", "6"}, contains : BOOLEAN]

\* lines 169-175, from boundary row k on
RECURSIVE admin_scan(_, _, _, _)
admin_scan(areas, k, locality, country) ==
    IF k > Len(areas) THEN [locality |-> locality, country |-> country]
    ELSE LET a == areas[k] IN
         IF a.contains /\ a.admin_level = "4"
         THEN admin_scan(areas, k + 1, a.name, country)
         ELSE IF a.contains /\ a.admin_level = "2"
         THEN admin_scan(areas, k + 1, locality, a.name)
         ELSE admin_scan(areas, k + 1, locality, country)

\* lines 154-204 for a row that does not raise: the record appended
settlement_record(r, j, areas) ==
    LET found == admin_scan(areas, 1, "Unknown", "Unknown")
        locality == IF found.locality = "Unknown"
                    THEN (IF r.county # "" THEN r.county ELSE "Unknown")
                    ELSE found.locality
        country == IF found.country = "Unknown" THEN "United Kingdom"
                   ELSE found.country
    IN  [idx |-> j, name |-> SettlementName(j), locality |-> locality,
         country |-> country]

SettleInit ==
    /\ settlements \in SeqsOf(SettlementRows, 0, MaxSettlements)
    /\ admin_areas \in SeqsOf(AdminRows, 0, MaxAdmin)
    /\ processedS = <<>>
    /\ name = Unbound
    /\ rowS = 1
    /\ pcSettle = "loop"
    /\ SplitIdle
    /\ DistIdle
    /\ PoisIdle
    /\ CutIdle
    /\ BufferIdle
    /\ NearestIdle
    /\ CrsIdle

\* lines 152-207: one iteration.  The handler of line 205 formats `name`: when
\* line 154 itself raised and no earlier row has bound name, the handler raises
\* UnboundLocalError, which nothing in the function catches.
SettleRow ==
    /\ pcSettle = "loop"
    /\ rowS <= Len(settlements)
    /\ LET r == settlements[rowS] IN
        IF r.fail = "name"
        THEN /\ pcSettle' = IF name = Unbound THEN "raised" ELSE "loop"
             /\ UNCHANGED <<name, processedS>>
        ELSE /\ name' = SettlementName(rowS)
             /\ processedS' = IF r.fail = "geometry" THEN processedS
                              ELSE Append(processedS,
                                          settlement_record(r, rowS, admin_areas))
             /\ UNCHANGED pcSettle
    /\ rowS' = rowS + 1
    /\ UNCHANGED <<settlements, admin_areas, notSettleVars>>

\* line 209
SettleReturn ==
    /\ pcSettle = "loop"
    /\ rowS > Len(settlements)
    /\ pcSettle' = "returned"
    /\ UNCHANGED <<settlements, admin_areas, processedS, name, rowS, notSettleVars>>

SettleNext == SettleRow \/ SettleReturn

SpecSettle == SettleInit /\ [][SettleNext]_vars

\* C9: when the processing of one candidate fails at any step, the read of its
\* name included, the failure does not leave the loop of process_settlements,
\* and the list returned holds every candidate that did not fail and omits
\* exactly those that did.
C9_FailureIsIsolated ==
    /\ pcSettle # "raised"
    /\ pcSettle = "returned" =>
          \A j \in 1..Len(settlements) :
              settlements[j].fail = "none"
                  <=> \E a \in 1..Len(processedS) : processedS[a].idx = j

\* the same isolation in process_pois, where the exception that leaves
\* process_single_poi is caught by the loop: every row that did not raise
\* outside calculate_distance_along_route is in the list returned
PoisFailureIsIsolated ==
    pcPois = "returned" =>
        /\ \A j \in 1..Len(shops) :
              j \in Emitted(shops)
                  <=> \E a \in 1..Len(processed) :
                          processed[a].type = "shop" /\ processed[a].idx = j
        /\ \A j \in 1..Len(campsites) :
              j \in Emitted(campsites)
                  <=> \E a \in 1..Len(processed) :
                          processed[a].type = "campsite" /\ processed[a].idx = j

\* the whole route as a chunk: every vertex index, in order
WholeRoute == [k \in 1..(Len(route) + 1) |-> k - 1]

\* C12: split_route on a route whose planar length is 0 (all vertices
\* identical) returns exactly one chunk, equal to the whole route.
C12_ZeroLengthYieldsWholeRoute ==
    (pcSplit = "returned" /\ chunk_size > 0 /\ LineLength(route) = 0)
        => (Len(chunks) = 1 /\ chunks[1] = WholeRoute)

\* what the code returns for such a route: ceil(0 / chunk_size) = 0 iterations
ZeroLengthYieldsNoChunk ==
    (pcSplit = "returned" /\ chunk_size > 0 /\ LineLength(route) = 0)
        => chunks = <<>>

\* C13: split_route called with chunk_size <= 0 fails with an error before
\* producing any chunk; it never returns a chunk list, empty or not.
C13_NonPositiveChunkSizeRaises ==
    chunk_size <= 0 => (pcSplit # "returned" /\ chunks = <<>>)

\* what the code does: the division raises for 0 only; for a negative
\* chunk_size, ceil gives n_chunks <= 0, the loop does not run and the empty
\* list is returned
NonPositiveChunkSizeOutcome ==
    /\ (chunk_size = 0 /\ pcSplit # "start") => pcSplit = "raised"
    /\ (chunk_size < 0 /\ pcSplit \notin {"start", "loop"})
           => (pcSplit = "returned" /\ chunks = <<>>)

\* the boundary rows of level lv that contain the settlement's point, by position
Containing(lv) ==
    {k \in 1..Len(admin_areas) :
        admin_areas[k].contains /\ admin_areas[k].admin_level \in lv}

FirstOf(S) == CHOOSE k \in S : \A m \in S : k <= m

LastOf(S) == CHOOSE k \in S : \A m \in S : k >= m

\* C15: when several administrative-boundary polygons contain a settlement's
\* representative point, process_settlements takes the locality from the first
\* containing polygon in iteration order; later containing polygons do not
\* override it.  (Stated for the level the code reads, '4', so that the
\* polygons concerned are all ones the loop assigns from.)
C15_FirstContainingPolygonWins ==
    \A a \in 1..Len(processedS) :
        Containing({"4"}) # {}
            => processedS[a].locality = admin_areas[FirstOf(Containing({"4"}))].name

\* what the code does: the loop of lines 169-175 has no break; each containing
\* level-4 row assigns locality again, so the record's locality is the name of
\* the last containing level-4 polygon in iteration order
LastContainingCountyWins ==
    \A a \in 1..Len(processedS) :
        Containing({"4"}) # {}
            => processedS[a].locality = admin_areas[LastOf(Containing({"4"}))].name

\* a record was made where two containing level-4 polygons differ in name
TwoCountiesReached ==
    /\ processedS # <<>>
    /\ \E k, m \in Containing({"4"}) : admin_areas[k].name # admin_areas[m].name

\* C16: whenever a settlement's point lies inside a supplied administrative
\* polygon of a level the boundary feed delivers ('4' or '6'), the locality of
\* its record is the name of such a containing polygon, never the tag-based
\* fallback and never 'Unknown'.
C16_ContainmentFirst ==
    \A a \in 1..Len(processedS) :
        Containing({"4", "6"}) # {}
            => \E k \in Containing({"4", "6"}) :
                   processedS[a].locality = admin_areas[k].name

\* what the code does with a level-6 polygon: nothing.  With no containing
\* level-4 polygon the locality is the county tag, or 'Unknown'
DistrictPolygonIsIgnored ==
    \A a \in 1..Len(processedS) :
        Containing({"4"}) = {}
            => processedS[a].locality \in {"Tagshire", "Unknown"}

\* the external candidate an output record was made from
FeatureOf(rec) ==
    IF rec.type = "campsite" /\ rec.idx = dual[2] THEN <<"shop", dual[1]>>
    ELSE <<rec.type, rec.idx>>

\* C11: the list returned by process_pois is deduplicated: no external
\* candidate appears in more than one output record, a feature returned by
\* both the shop feed and the campsite feed included.
C11_OutputIsDeduplicated ==
    pcPois = "returned" =>
        \A a, b \in 1..Len(processed) :
            a # b => FeatureOf(processed[a]) # FeatureOf(processed[b])

\* what the code does: each feed is looped over on its own and every row that
\* yields a record is appended, so a feature of both feeds has two records
DualFeatureIsListedTwice ==
    (pcPois = "returned" /\ dual # <<0, 0>> /\ dual[1] \in Emitted(shops)) =>
        \E a, b \in 1..Len(processed) :
            /\ a # b
            /\ processed[a].type = "shop" /\ processed[a].idx = dual[1]
            /\ processed[b].type = "campsite" /\ processed[b].idx = dual[2]
            /\ processed[a].coords = processed[b].coords

(***************************************************************************)
(* gpx_functions.py: cut_line_at_distance on arbitrary arguments           *)
(***************************************************************************)
MaxCutSegs == 3
CutDists == {-500, 0, 500, 1500, 4500, 6000}

CutInit ==
    /\ cutLine \in SeqsOf(SegLens, 1, MaxCutSegs)
    /\ cutStart \in CutDists
    /\ cutEnd \in CutDists
    /\ cutCoords = <<>>
    /\ pcCut = "start"
    /\ SplitIdle
    /\ DistIdle
    /\ PoisIdle
    /\ SettleIdle
    /\ BufferIdle
    /\ NearestIdle
    /\ CrsIdle

\* lines 75-104: LineString(coords) of an empty list is the empty line
CutCall ==
    /\ pcCut = "start"
    /\ cutCoords' = cut_line_at_distance(cutLine, cutStart, cutEnd)
    /\ pcCut' = "returned"
    /\ UNCHANGED <<cutLine, cutStart, cutEnd, notCutVars>>

CutNext == CutCall

SpecCut == CutInit /\ [][CutNext]_vars

\* the line returned has at least 2 coordinates, each a vertex of the input,
\* those before the last in strictly increasing vertex order, and the last
\* the input's final vertex
CutShape ==
    /\ Len(cutCoords) >= 2
    /\ \A k \in 1..Len(cutCoords) : cutCoords[k] \in 0..Len(cutLine)
    /\ \A k, m \in 1..(Len(cutCoords) - 1) : k < m => cutCoords[k] < cutCoords[m]
    /\ cutCoords[Len(cutCoords)] = Len(cutLine)

\* C20: cut_line_at_distance, for any line with >= 2 vertices and any
\* start_dist <= end_dist with start_dist <= line length, returns a line of at
\* least 2 coordinates, every one an original vertex, those before the last in
\* strictly increasing vertex-index order, the last always the line's final
\* vertex.
C20_CutShape ==
    (pcCut = "returned" /\ cutStart <= cutEnd /\ cutStart <= LineLength(cutLine))
        => CutShape

\* C20, amended: the same for end_dist >= 0.  With end_dist < 0 (start_dist
\* then negative too, and clamped to 0) the first segment already starts
\* beyond end_dist, the loop breaks at once and the line returned is empty.
C20_CutShapeForNonNegativeEnd ==
    (pcCut = "returned" /\ cutStart <= cutEnd /\ cutStart <= LineLength(cutLine))
        => IF cutEnd >= 0 THEN CutShape ELSE cutCoords = <<>>

\* C20: a cut that keeps a segment in the middle of the line: it starts after
\* the first vertex, ends before the last segment, and still ends at the final
\* vertex
C20_Witness ==
    /\ pcCut = "returned"
    /\ 0 < cutStart /\ cutStart <= cutEnd /\ cutEnd < LineLength(cutLine)
    /\ CutShape
    /\ cutCoords[1] > 0
    /\ cutCoords[Len(cutCoords) - 1] < Len(cutLine) - 1

(***************************************************************************)
(* gpx_functions.py: create_route_buffer                                   *)
(***************************************************************************)
MaxBufVerts == 3
BufDistances == {-500, 0, 125, 500}

\* the locations a buffer is observed at
BufGrid == PointCoords \X PointCoords

\* GeoSeries.buffer(distance) of a line, as GEOS computes it: the locations
\* within distance of the line; for distance <= 0 the buffer of a line is the
\* empty polygon, and no error
buffer(line, dist) ==
    IF dist <= 0 THEN {}
    ELSE {p \in BufGrid : MinSegDist2(line, p) <= dist * dist}

\* lines 108-112; the handler of lines 113-115 logs and re-raises
create_route_buffer(line, dist, fails) ==
    IF fails THEN [raised |-> TRUE, buffered |-> {}]
    ELSE [raised |-> FALSE, buffered |-> buffer(line, dist)]

BufferInit ==
    /\ bufRoute \in UNION {AxisRoutes(n) : n \in 2..MaxBufVerts}
    /\ buffer_distance \in BufDistances
    /\ bufFails \in BOOLEAN
    /\ buffered = {}
    /\ pcBuffer = "start"
    /\ SplitIdle
    /\ DistIdle
    /\ PoisIdle
    /\ SettleIdle
    /\ CutIdle
    /\ NearestIdle
    /\ CrsIdle

BufferCall ==
    /\ pcBuffer = "start"
    /\ LET res == create_route_buffer(bufRoute, buffer_distance, bufFails)
       IN  /\ buffered' = res.buffered
           /\ pcBuffer' = IF res.raised THEN "raised" ELSE "returned"
    /\ UNCHANGED <<bufRoute, buffer_distance, bufFails, notBufferVars>>

BufferNext == BufferCall

SpecBuffer == BufferInit /\ [][BufferNext]_vars

\* C14: create_route_buffer called with buffer_distance <= 0 fails with an
\* invalid-parameter error; it never returns a buffer geometry for a zero or
\* negative distance.
C14_NonPositiveDistanceRaises ==
    buffer_distance <= 0 => pcBuffer # "returned"

\* what the code does: buffer_distance is passed to GeoSeries.buffer unchecked;
\* unless another step raises, an empty buffer is returned for a distance <= 0
\* and a buffer holding the route's vertices for a distance > 0
BufferOutcome ==
    pcBuffer \in {"returned", "raised"} =>
        /\ pcBuffer = "raised" <=> bufFails
        /\ (pcBuffer = "returned" /\ buffer_distance <= 0) => buffered = {}
        /\ (pcBuffer = "returned" /\ buffer_distance > 0)
               => \A k \in 1..Len(bufRoute) : bufRoute[k] \in buffered

(***************************************************************************)
(* better_search_poi.py: get_nearest_settlement                            *)
(***************************************************************************)
MaxCandidates == 3

\* locations in the plane of utm_crs, in metres, chosen so that every distance
\* between a point and a settlement is a whole number
NsQueryPoints == {<<0, 0>>, <<250, 0>>}
NsPoints == {<<-125, 0>>, <<0, 0>>, <<125, 0>>, <<375, 0>>, <<125, 300>>}

\* where the try block raises, if anywhere:
\*   "fetch"    ox.features_from_polygon of lines 406-409
\*   "measure"  the projection or the distance computation of lines 415-422
NsFailModes == {"none", "fetch", "measure"}

NsRows == [point : NsPoints, place : {"village", "town"}]

\* lines 412 and 433
Sentinel == [name |-> "Unknown", type |-> "Unknown", distance |-> 0]

\* geometry.distance between two points
PlanarDistance(a, b) ==
    LET dx == Abs(a[1] - b[1])
        dy == Abs(a[2] - b[2])
    IN  CHOOSE d \in Max2(dx, dy)..(dx + dy) : d * d = Dist2(a, b)

\* line 421: the distance of every settlement, by position in the feed
settlement_distances(pt, setts) ==
    [j \in 1..Len(setts) |-> PlanarDistance(pt, setts[j].point)]

\* the label of the last of the minimal values
idxmin_last(ds) ==
    CHOOSE j \in DOMAIN ds :
        /\ \A m \in DOMAIN ds : ds[j] <= ds[m]
        /\ \A m \in DOMAIN ds : m > j => ds[m] > ds[j]

\* Series.idxmin: the label of the first occurrence of the minimum
idxmin(ds) ==
    CHOOSE j \in DOMAIN ds :
        /\ \A m \in DOMAIN ds : ds[j] <= ds[m]
        /\ \A m \in DOMAIN ds : m < j => ds[m] > ds[j]

\* lines 400-429, the try block: what it returns, or that it raised
nearest_try(pt, setts, fails) ==
    IF fails = "fetch" THEN [raised |-> TRUE, value |-> Sentinel]
    ELSE IF setts = <<>> THEN [raised |-> FALSE, value |-> Sentinel]
    ELSE IF fails = "measure" THEN [raised |-> TRUE, value |-> Sentinel]
    ELSE LET distances == settlement_distances(pt, setts)
             nearest_idx == idxmin(distances)
         IN  [raised |-> FALSE,
              value |-> [name |-> SettlementName(nearest_idx),
                         type |-> setts[nearest_idx].place,
                         distance |-> round_km(distances[nearest_idx])]]

\* the function with a handler that re-raises
get_nearest_settlement_reraising(pt, setts, fails) == nearest_try(pt, setts, fails)

\* lines 398-433: the handler of lines 431-433 returns the sentinel
get_nearest_settlement(pt, setts, fails) ==
    LET t == nearest_try(pt, setts, fails) IN
    IF t.raised THEN [raised |-> FALSE, value |-> Sentinel] ELSE t

NearestInit ==
    /\ nsPoint \in NsQueryPoints
    /\ nsSettlements \in SeqsOf(NsRows, 0, MaxCandidates)
    /\ nsFails \in NsFailModes
    /\ nearest = [raised |-> FALSE]
    /\ pcNearest = "start"
    /\ SplitIdle
    /\ DistIdle
    /\ PoisIdle
    /\ SettleIdle
    /\ CutIdle
    /\ BufferIdle
    /\ CrsIdle

NearestCall ==
    /\ pcNearest = "start"
    /\ nearest' = get_nearest_settlement(nsPoint, nsSettlements, nsFails)
    /\ pcNearest' = "done"
    /\ UNCHANGED <<nsPoint, nsSettlements, nsFails, notNearestVars>>

NearestNext == NearestCall

SpecNearest == NearestInit /\ [][NearestNext]_vars

\* C17: get_nearest_settlement with an empty settlement set returns the
\* sentinel {name 'Unknown', type 'Unknown', distance 0} and never raises; a
\* failure while fetching or measuring settlements yields the same sentinel.
C17_EmptyOrFailureYieldsSentinel ==
    pcNearest = "done" =>
        /\ ~nearest.raised
        /\ (nsSettlements = <<>> \/ nsFails # "none") => nearest.value = Sentinel

\* C17: the call returned the sentinel after the measuring of a non-empty
\* settlement set raised
C17_Witness ==
    /\ pcNearest = "done"
    /\ nsSettlements # <<>>
    /\ nsFails = "measure"
    /\ ~nearest.raised
    /\ nearest.value = Sentinel

\* the distances of the settlements from the point
NsDistances == {PlanarDistance(nsPoint, nsSettlements[j].point) :
                   j \in 1..Len(nsSettlements)}

\* the positions of the settlements at the least distance
NsNearest ==
    {j \in 1..Len(nsSettlements) :
        PlanarDistance(nsPoint, nsSettlements[j].point) = SetMin(NsDistances)}

\* C18: for a non-empty settlement set, get_nearest_settlement returns the
\* settlement whose planar distance to the point is minimal; of several at
\* that distance the first in input order; and the distance reported is the
\* minimum, in km (rounded to 2 decimals).
C18_NearestIsFirstMinimum ==
    (pcNearest = "done" /\ nsFails = "none" /\ nsSettlements # <<>>) =>
        /\ nearest.value.name = SettlementName(SetMin(NsNearest))
        /\ nearest.value.type = nsSettlements[SetMin(NsNearest)].place
        /\ nearest.value.distance = round_km(SetMin(NsDistances))

\* C18: two settlements at the same least distance, positive, behind a
\* farther one, and the first of the two returned
C18_Witness ==
    /\ pcNearest = "done" /\ nsFails = "none"
    /\ Cardinality(NsNearest) >= 2
    /\ SetMin(NsNearest) > 1
    /\ SetMin(NsDistances) > 0
    /\ nearest.value.name = SettlementName(SetMin(NsNearest))

(***************************************************************************)
(* The projection each distance of a correlation run is measured in:       *)
(* better_search_poi.py, process_single_poi's two calls                    *)
(***************************************************************************)
MaxGeoVerts == 3
MaxGeoPoints == 2

\* longitudes in whole degrees, on both sides of the zone boundaries at -6 and 0
GeoLons == {-7, -4, -1, 2, 5}

SetMax(S) == CHOOSE d \in S : \A e \in S : d >= e

\* the UTM zone a longitude lies in: zones are 6 degrees wide, zone 1 from -180
utm_zone(lon) == (lon + 180) \div 6 + 1

\* GeoDataFrame.estimate_utm_crs: the UTM zone that holds the centre of the
\* bounds of the geometries (the hemisphere, which does not vary here, left out)
estimate_utm_crs(lons) ==
    LET xs == {lons[k] : k \in 1..Len(lons)}
    IN  utm_zone((SetMin(xs) + SetMax(xs)) \div 2)

\* calculate_distance_along_route, line 155: utm_crs from route_gdf
along_route_crs(route_lons, point_lon) == estimate_utm_crs(route_lons)

\* get_nearest_settlement, lines 415-416: utm_crs from point_gdf
nearest_settlement_crs(route_lons, point_lon) == estimate_utm_crs(<<point_lon>>)

\* the candidates lie in the corridor around the route
InCorridor(route_lons, lon) ==
    \E j, k \in 1..Len(route_lons) : route_lons[j] <= lon /\ lon <= route_lons[k]

CrsInit ==
    /\ geoRoute \in SeqsOf(GeoLons, 2, MaxGeoVerts)
    /\ geoPoints \in SeqsOf(GeoLons, 0, MaxGeoPoints)
    /\ \A k \in 1..Len(geoPoints) : InCorridor(geoRoute, geoPoints[k])
    /\ crsUsed = <<>>
    /\ rowG = 1
    /\ pcCrs = "loop"
    /\ SplitIdle
    /\ DistIdle
    /\ PoisIdle
    /\ SettleIdle
    /\ CutIdle
    /\ BufferIdle
    /\ NearestIdle

\* process_single_poi, lines 113 and 119, for one candidate of process_pois
CrsCandidate ==
    /\ pcCrs = "loop"
    /\ rowG <= Len(geoPoints)
    /\ crsUsed' = Append(crsUsed,
                      [along |-> along_route_crs(geoRoute, geoPoints[rowG]),
                       settlement |-> nearest_settlement_crs(geoRoute, geoPoints[rowG])])
    /\ rowG' = rowG + 1
    /\ UNCHANGED <<geoRoute, geoPoints, pcCrs, notCrsVars>>

CrsReturn ==
    /\ pcCrs = "loop"
    /\ rowG > Len(geoPoints)
    /\ pcCrs' = "returned"
    /\ UNCHANGED <<geoRoute, geoPoints, crsUsed, rowG, notCrsVars>>

CrsNext == CrsCandidate \/ CrsReturn

SpecCrs == CrsInit /\ [][CrsNext]_vars

\* C19: within one correlation run a single projection, the one selected from
\* the route's extent, is used for every metric distance: the along-route
\* distance and the point-to-settlement distance of every candidate are
\* measured in that route projection, never in one selected from a point.
C19_SingleRouteProjection ==
    \A a \in 1..Len(crsUsed) :
        /\ crsUsed[a].along = estimate_utm_crs(geoRoute)
        /\ crsUsed[a].settlement = estimate_utm_crs(geoRoute)

\* what the code does: the along-route distance is measured in the route's
\* projection, the point-to-settlement distance in the projection selected
\* from the candidate's own point
SettlementDistanceUsesPointProjection ==
    \A a \in 1..Len(crsUsed) :
        /\ crsUsed[a].along = estimate_utm_crs(geoRoute)
        /\ crsUsed[a].settlement = utm_zone(geoPoints[a])

\* a candidate inside the corridor whose own zone is not the route's
TwoProjectionsReached ==
    \E a \in 1..Len(crsUsed) : crsUsed[a].settlement # crsUsed[a].along

====
